---- MODULE Spec2Model ----
(***************************************************************************)
(* Model of the snapshot server of qlik-cloud-embed-snapshot               *)
(* (src/unnamed/part_001): the two HTTP handlers GET /get-snapshots and    *)
(* GET /get-local-snapshots, the helper saveSnapshots, and the artifact    *)
(* store public/snapshots/<taskId>/ they read and write.                   *)
(*                                                                         *)
(* A refresh (GET /get-snapshots) is an async function: it is split into   *)
(* one action per awaited call (remote call or filesystem call), so every  *)
(* state of the model is an I/O boundary of the handler.  A remote file    *)
(* request and the write of its payload are one action: the request has no *)
(* effect on the store, so it commutes with every step before the write.   *)
(*                                                                         *)
(* The remote tenant and the file system are the environment: each call    *)
(* may return or throw, a returned file response carries a status and a    *)
(* content type.  Spec has the clients issue one request at a time         *)
(* (limit = 1); GET /get-local-snapshots only reads, and is one action.    *)
(* SpecConc has them keep two requests in flight (limit = 2), whose steps   *)
(* interleave at the I/O boundaries, as the handlers take no lock.         *)
(***************************************************************************)
EXTENDS Integers, Sequences, FiniteSets, TLC

\* ------------------------------------------------------------ bounds
\* refreshes (GET /get-snapshots requests) started in one behaviour
MaxRefresh == 2
\* remote or filesystem calls with an anomalous outcome in one behaviour:
\* a call that throws, a file response with a non-200 status, a file
\* response whose content type is not the role's usual one
MaxFaults == 2

\* ------------------------------------------------------------ values
\* the JavaScript value undefined, for string-valued fields
Undef == "undefined"

\* ids of the chart-monitoring tasks the remote tenant may list
Tasks == {"T1", "T2"}

\* task descriptors as getSharingTask returns them: T1 carries a name,
\* T2 is a descriptor without one
TaskName(id) == IF id = "T1" THEN "Sales KPI" ELSE Undef

\* listings getItems may return: the tasks in any order, without repeats
Catalogs ==
    {<<>>} \cup {<<t>> : t \in Tasks}
           \cup {<<s, t>> : <<s, t>> \in {p \in Tasks \X Tasks : p[1] # p[2]}}

\* variant: the images are asked for before the interactive data
fileFormatsImagesFirst == <<"image-small", "image-large", "snapshot">>

\* line 203: the roles, in the order the loop of line 206 takes them
fileFormats == <<"snapshot", "image-small", "image-large">>

Aliases == {fileFormats[i] : i \in 1..3}

\* content-type headers the remote side answers with
ContentTypes == {"application/json", "image/png", "application/octet-stream"}

\* the content type the tenant usually answers a role with
UsualType(fileAlias) ==
    IF fileAlias = "snapshot" THEN "application/json" ELSE "image/png"

\* HTTP statuses a file response that is returned (not thrown) may carry
Statuses == {200, 404}

\* visualization declared by an interactive payload (Undef: none declared)
VizKinds == {"kpi", "mappng", Undef}

SUPPORTED_CHARTS ==
    {"barchart", "piechart", "linechart", "mekkochart",
     "qlik-funnel-chart-ext", "qlik-sankey-chart-ext", "kpi", "bulletchart",
     "sn-org-chart", "combochart", "scatterplot", "histogram",
     "waterfallchart", "gauge", "childObject"}

\* a || b of JavaScript on string-valued fields
JsOr(a, b) == IF a = Undef \/ a = "" THEN b ELSE a

\* ------------------------------------------------------------ the store
\* A file name in a task directory is <<alias, extension>>.
Exts == {".json", ".png", ""}
FileNames == Aliases \X Exts

\* files[f] = 0: no such file; n > 0: written by the n-th refresh
NoFiles == [f \in FileNames |-> 0]

\* content of metadata.json: kind "none" (no file), "corrupt" (the read or
\* JSON.parse throws, or the parsed value is null so that reading a field
\* throws: every case that lands in the handlers' catch), or "record"
NoMeta ==
    [kind |-> "none", id |-> Undef, name |-> Undef, visualization |-> Undef,
     imageAvailable |-> FALSE, snapshotAvailable |-> FALSE,
     displayMode |-> Undef, lastUpdated |-> 0]

CorruptMeta == [NoMeta EXCEPT !.kind = "corrupt"]

NoDir == [exists |-> FALSE, files |-> NoFiles, meta |-> NoMeta]

\* ------------------------------------------------------------ requests
Reqs == {1, 2}

IdleReq ==
    [pc |-> "idle", tasks |-> <<>>, items |-> <<>>, k |-> 0, role |-> 0,
     snapshotData |-> Undef, snapshotSaved |-> FALSE,
     imageSmallSaved |-> FALSE, imageLargeSaved |-> FALSE,
     hasFailures |-> FALSE,
     enhancedTasks |-> <<>>, processingErrors |-> <<>>,
     status |-> 0, stamp |-> 0,
     \* history of this refresh, for stating the properties
     fetchFailed |-> {}, finished |-> {}, failure |-> "none",
     \* the file requests made so far for the task at hand, each with the
     \* response it got (status 0: the request threw)
     asked |-> <<>>]

VARIABLES
    rootExists,   \* public/snapshots exists
    store,        \* task id -> directory public/snapshots/<id>
    req,          \* request slot -> state of its GET /get-snapshots handler
    localRes,     \* the GET /get-local-snapshots response just sent
    nRefresh,     \* refreshes started so far
    faults,       \* abnormal call outcomes so far
    limit,        \* requests the clients keep in flight at a time
    lastFetch     \* task id -> what the latest transaction of the task, if
                  \* it committed, was answered and left in the store

vars == <<rootExists, store, req, localRes, nRefresh, faults, limit,
          lastFetch>>

NoRes == [status |-> 0, body |-> <<>>, fault |-> FALSE]

NoFetch == [payloads |-> <<>>, files |-> {}, meta |-> NoMeta]


\* ------------------------------------------------------------ helpers
InFlight == {r \in Reqs : req[r].pc \notin {"idle", "done"}}

FreeSlots == Reqs \ InFlight

CanFault == faults < MaxFaults

\* lines 209-216: a file request and the response it got
Response(fileAlias, status, contentType, viz) ==
    [fileAlias |-> fileAlias, status |-> status,
     contentType |-> contentType, visualization |-> viz]

\* lines 216-236: what the handler reads of the responses it keeps: the
\* content type and, of a JSON payload, the declared chart type
Payloads(asked) ==
    [i \in 1..Len(asked) |->
        <<asked[i].fileAlias, asked[i].contentType, asked[i].visualization>>]

\* the files a directory holds
FilesOf(dir) == {f \in FileNames : dir.files[f] > 0}

\* the task the saveSnapshots loop or the re-read loop of r is at
CurTask(r) == req[r].tasks[req[r].k]

\* line 215 tests `fileResponse.status = 200`: an assignment, whose value
\* 200 is truthy whatever status the response carried
StatusAccepted(status) == TRUE

\* lines 221-253: name of the file a payload is saved under
OutName(fileAlias, contentType) ==
    IF contentType = "application/json" THEN <<fileAlias, ".json">>
    ELSE IF contentType = "image/png" THEN <<fileAlias, ".png">>
    ELSE <<fileAlias, "">>

\* variant: the flag of a role is set whatever the type of its payload
MarkSavedAnyType(rq, fileAlias, contentType, viz) ==
    IF fileAlias = "snapshot"
    THEN [rq EXCEPT !.snapshotData = viz, !.snapshotSaved = TRUE]
    ELSE IF fileAlias = "image-small"
         THEN [rq EXCEPT !.imageSmallSaved = TRUE]
         ELSE [rq EXCEPT !.imageLargeSaved = TRUE]

\* lines 233-236 and 258-262: the flags after a payload has been written
MarkSaved(rq, fileAlias, contentType, viz) ==
    IF contentType = "application/json"
    THEN IF fileAlias = "snapshot"
         THEN [rq EXCEPT !.snapshotData = viz, !.snapshotSaved = TRUE]
         ELSE rq
    ELSE IF fileAlias = "image-small"
         THEN [rq EXCEPT !.imageSmallSaved = TRUE]
         ELSE IF fileAlias = "image-large"
              THEN [rq EXCEPT !.imageLargeSaved = TRUE]
              ELSE rq

\* variant: only a failed request rolls the task back
IncompleteOnFailure(rq) == rq.hasFailures

\* line 284: the task is rolled back rather than committed
Incomplete(rq) ==
    \/ rq.hasFailures
    \/ ~rq.imageSmallSaved
    \/ ~rq.imageLargeSaved
    \/ ~rq.snapshotSaved

\* variant: every declared chart type is displayed as a snapshot
EnhancedMetadataAnyChart(task, snapshotData, now) ==
    LET visualization == JsOr(snapshotData, "unknown")
        displayMode == IF visualization # "unknown"
                       THEN "snapshot" ELSE "image"
    IN  [kind |-> "record", id |-> task.id, name |-> task.name,
         visualization |-> visualization,
         imageAvailable |-> TRUE, snapshotAvailable |-> TRUE,
         displayMode |-> displayMode, lastUpdated |-> now]

\* variant: a task without a name is given one made of the time of the
\* fetch
EnhancedMetadataDatedName(task, snapshotData, now) ==
    LET visualization == JsOr(snapshotData, "unknown")
        displayMode == IF visualization \in SUPPORTED_CHARTS
                       THEN "snapshot" ELSE "image"
    IN  [kind |-> "record", id |-> task.id,
         name |-> JsOr(task.name, "Snapshot " \o ToString(now)),
         visualization |-> visualization,
         imageAvailable |-> TRUE, snapshotAvailable |-> TRUE,
         displayMode |-> displayMode, lastUpdated |-> now]

\* lines 302-321: the metadata record of a complete task
EnhancedMetadata(task, snapshotData, now) ==
    LET visualization == JsOr(snapshotData, "unknown")
        displayMode == IF visualization \in SUPPORTED_CHARTS
                       THEN "snapshot" ELSE "image"
    IN  [kind |-> "record", id |-> task.id, name |-> task.name,
         visualization |-> visualization,
         imageAvailable |-> TRUE, snapshotAvailable |-> TRUE,
         displayMode |-> displayMode, lastUpdated |-> now]

\* lines 77-84: the entry GET /get-snapshots builds from a record
RefreshEntry(metadata) ==
    [id |-> metadata.id,
     name |-> metadata.name,
     visualization |-> JsOr(metadata.visualization, "unknown"),
     imageAvailable |-> (metadata.imageAvailable \/ FALSE),
     snapshotAvailable |-> (metadata.snapshotAvailable \/ FALSE),
     displayMode |-> JsOr(metadata.displayMode, "image")]

\* lines 143-150: the entry GET /get-local-snapshots builds from a record
LocalEntry(metadata, folder) ==
    [id |-> JsOr(metadata.id, folder),
     name |-> JsOr(metadata.name, "Snapshot " \o folder),
     visualization |-> JsOr(metadata.visualization, "unknown"),
     imageAvailable |-> (metadata.imageAvailable \/ FALSE),
     snapshotAvailable |-> (metadata.snapshotAvailable \/ FALSE),
     displayMode |-> JsOr(metadata.displayMode, "image")]

\* variant: the directory is looked for, not its metadata.json
ReadableDirOnly(dir) == dir.exists

\* lines 73-74 and 139-140: readFile and JSON.parse of metadata.json succeed
Readable(dir) == dir.exists /\ dir.meta.kind = "record"

\* lines 195-199: the per-task locals of saveSnapshots, as declared
ResetLocals(rq) ==
    [rq EXCEPT !.role = 0, !.snapshotData = Undef, !.snapshotSaved = FALSE,
               !.imageSmallSaved = FALSE, !.imageLargeSaved = FALSE,
               !.hasFailures = FALSE, !.asked = <<>>]

\* lines 105-108: the handler's catch answers 500 with an error object;
\* cause records which call threw ("catalog": getItems, "root": the mkdir
\* of the store root, "task": a call made for one task)
Fail500(rq, cause) ==
    [ResetLocals(rq) EXCEPT !.pc = "done", !.status = 500, !.k = 0,
                            !.items = <<>>, !.enhancedTasks = <<>>,
                            !.processingErrors = <<>>, !.failure = cause]

\* variant: the listing error is swallowed and the refresh goes on with
\* no task
OnListingErrorContinue(rq) ==
    [rq EXCEPT !.failure = "catalog", !.pc = "mkroot", !.k = 1]

\* lines 44-49 with 105-108: getItems throws, nothing else is attempted
OnListingError(rq) == Fail500(rq, "catalog")

\* line 104: res.json(enhancedTasks)
Respond(rq) ==
    [rq EXCEPT !.pc = "done", !.status = 200, !.k = 0, !.items = <<>>]

\* lines 65-70: after saveSnapshots, the re-read loop over the tasks
AfterSave(rq) ==
    IF Len(rq.tasks) = 0 THEN Respond(rq)
    ELSE [rq EXCEPT !.pc = "reread", !.k = 1]

\* lines 190 and 299: saveSnapshots moves on to the next task
NextTask(rq) ==
    IF rq.k < Len(rq.tasks)
    THEN [ResetLocals(rq) EXCEPT !.pc = "mkdir", !.k = rq.k + 1]
    ELSE AfterSave(ResetLocals(rq))

\* lines 281-284: after a role, the next role or the end of the role loop
AfterRole(rq) ==
    IF rq.role < 3 THEN [rq EXCEPT !.role = rq.role + 1]
    ELSE IF Incomplete(rq) THEN [rq EXCEPT !.pc = "cleanup"]
    ELSE [rq EXCEPT !.pc = "commit"]

\* lines 269-270 and 278-279: hasFailures = true; break
Abort(rq) ==
    [rq EXCEPT !.hasFailures = TRUE, !.pc = "cleanup",
               !.fetchFailed = rq.fetchFailed \cup {rq.tasks[rq.k].id}]


\* ------------------------------------------------------------ state
Init ==
    /\ rootExists = FALSE
    /\ store = [t \in Tasks |-> NoDir]
    /\ req = [r \in Reqs |-> IdleReq]
    /\ localRes = NoRes
    /\ nRefresh = 0
    /\ faults = 0
    /\ limit = 1
    /\ lastFetch = [t \in Tasks |-> NoFetch]

SetReq(r, rq) == req' = [req EXCEPT ![r] = rq]

\* ------------------------------------------------------------ GET /get-snapshots
\* lines 43-49 and 105-108: the request arrives and getItems is awaited
StartRefresh(r) ==
    /\ nRefresh < MaxRefresh
    /\ Cardinality(InFlight) < limit
    /\ r \in FreeSlots
    /\ \A s \in FreeSlots : r <= s
    /\ nRefresh' = nRefresh + 1
    /\ localRes' = NoRes
    /\ UNCHANGED <<rootExists, store, limit, lastFetch>>
    /\ LET fresh == [IdleReq EXCEPT !.stamp = nRefresh + 1]
       IN  \/ \E items \in Catalogs :
                /\ SetReq(r, [fresh EXCEPT
                                !.items = items, !.k = 1,
                                !.pc = IF items = <<>> THEN "mkroot"
                                       ELSE "detail"])
                /\ UNCHANGED faults
           \/ /\ CanFault
              /\ faults' = faults + 1
              /\ SetReq(r, OnListingError(fresh))

\* lines 53-60: getSharingTask for the k-th listed item
FetchDetail(r) ==
    LET rq == req[r] IN
    /\ rq.pc = "detail"
    /\ localRes' = NoRes
    /\ UNCHANGED <<rootExists, store, nRefresh, limit, lastFetch>>
    /\ \/ LET id == rq.items[rq.k]
              tasks == Append(rq.tasks, [id |-> id, name |-> TaskName(id)])
          IN  /\ SetReq(r, [rq EXCEPT
                              !.tasks = tasks,
                              !.k = IF rq.k < Len(rq.items) THEN rq.k + 1
                                    ELSE 1,
                              !.pc = IF rq.k < Len(rq.items) THEN "detail"
                                     ELSE "mkroot"])
              /\ UNCHANGED faults
       \/ /\ CanFault
          /\ faults' = faults + 1
          /\ SetReq(r, Fail500(rq, "task"))

\* variant: the store is synchronised with the listing, the directories
\* of the tasks that are not listed being removed
MkRootPrune(r) ==
    LET rq == req[r]
        listed == {rq.items[i] : i \in 1..Len(rq.items)}
    IN
    /\ rq.pc = "mkroot"
    /\ localRes' = NoRes
    /\ UNCHANGED <<nRefresh, limit, lastFetch, faults>>
    /\ rootExists' = TRUE
    /\ store' = [t \in Tasks |-> IF t \in listed THEN store[t] ELSE NoDir]
    /\ SetReq(r, IF Len(rq.tasks) = 0 THEN AfterSave(rq)
                 ELSE [rq EXCEPT !.pc = "mkdir", !.k = 1])

\* lines 187-188: fs.mkdir(root, { recursive: true })
MkRoot(r) ==
    LET rq == req[r] IN
    /\ rq.pc = "mkroot"
    /\ localRes' = NoRes
    /\ UNCHANGED <<store, nRefresh, limit, lastFetch>>
    /\ \/ /\ rootExists' = TRUE
          /\ SetReq(r, IF Len(rq.tasks) = 0 THEN AfterSave(rq)
                       ELSE [rq EXCEPT !.pc = "mkdir", !.k = 1])
          /\ UNCHANGED faults
       \/ /\ CanFault
          /\ faults' = faults + 1
          /\ SetReq(r, Fail500(rq, "root"))
          /\ UNCHANGED rootExists

\* lines 190-203: fs.mkdir(dir, { recursive: true }) and the flags' reset
MkDir(r) ==
    LET rq == req[r]
        id == CurTask(r).id
    IN
    /\ rq.pc = "mkdir"
    /\ localRes' = NoRes
    /\ UNCHANGED <<nRefresh, limit, lastFetch>>
    /\ \/ /\ rootExists' = TRUE
          /\ store' = [store EXCEPT ![id].exists = TRUE]
          /\ SetReq(r, [ResetLocals(rq) EXCEPT !.pc = "fetch", !.role = 1])
          /\ UNCHANGED faults
       \/ /\ CanFault
          /\ faults' = faults + 1
          /\ SetReq(r, Fail500(rq, "task"))
          /\ UNCHANGED <<rootExists, store>>

\* lines 206-281: one round of the role loop: getSharingTaskExecutionFile
\* for the role, then fs.writeFile of the payload
FetchFile(r) ==
    LET rq == req[r]
        id == CurTask(r).id
        fileAlias == fileFormats[rq.role]
    IN
    /\ rq.pc = "fetch"
    /\ localRes' = NoRes
    /\ UNCHANGED <<rootExists, nRefresh, limit, lastFetch>>
    /\ \/ \* the request throws (transport error, or an error response
          \* that the client library raises)
          /\ CanFault
          /\ faults' = faults + 1
          /\ SetReq(r, Abort([rq EXCEPT !.asked =
                                 Append(@, Response(fileAlias, 0, Undef,
                                                    Undef))]))
          /\ UNCHANGED store
       \/ \E status \in Statuses, contentType \in ContentTypes,
             viz \in VizKinds :
            /\ (fileAlias = "snapshot" /\ contentType = "application/json")
                 \/ viz = Undef
            /\ LET f == OutName(fileAlias, contentType)
                   odd == (IF status = 200 THEN 0 ELSE 1)
                          + (IF contentType = UsualType(fileAlias)
                             THEN 0 ELSE 1)
                   got == [rq EXCEPT !.asked =
                              Append(@, Response(fileAlias, status,
                                                 contentType, viz))]
                   seen == IF status = 200 THEN got
                           ELSE [got EXCEPT !.fetchFailed = @ \cup {id}]
               IN  /\ faults + odd <= MaxFaults
                   /\ IF ~StatusAccepted(status)
                      THEN /\ SetReq(r, Abort(seen))
                           /\ faults' = faults + odd
                           /\ UNCHANGED store
                      ELSE \/ \* the payload is written
                              /\ store[id].exists
                              /\ store' = [store EXCEPT
                                             ![id].files[f] = rq.stamp]
                              /\ faults' = faults + odd
                              /\ SetReq(r, AfterRole(
                                     MarkSaved(seen, fileAlias, contentType,
                                               viz)))
                           \/ \* fs.writeFile throws: the directory is gone
                              /\ ~store[id].exists
                              /\ faults' = faults + odd
                              /\ SetReq(r, Abort(seen))
                              /\ UNCHANGED store
                           \/ \* fs.writeFile throws on an I/O error,
                              \* leaving no file or a partial one
                              /\ store[id].exists
                              /\ faults + odd < MaxFaults
                              /\ faults' = faults + odd + 1
                              /\ SetReq(r, Abort(seen))
                              /\ \/ UNCHANGED store
                                 \/ store' = [store EXCEPT
                                                ![id].files[f] = rq.stamp]

\* variant: the rollback removes the store root, not the task's directory
CleanupRoot(r) ==
    LET rq == req[r]
        id == CurTask(r).id
    IN
    /\ rq.pc = "cleanup"
    /\ localRes' = NoRes
    /\ UNCHANGED <<nRefresh, limit, faults>>
    /\ lastFetch' = [lastFetch EXCEPT ![id] = NoFetch]
    /\ SetReq(r, NextTask([rq EXCEPT !.finished = @ \cup {id}]))
    /\ rootExists' = FALSE
    /\ store' = [t \in Tasks |-> NoDir]

\* lines 284-300: fs.rm(dir, { recursive: true }), errors swallowed
Cleanup(r) ==
    LET rq == req[r]
        id == CurTask(r).id
        next == NextTask([rq EXCEPT !.finished = @ \cup {id}])
    IN
    /\ rq.pc = "cleanup"
    /\ localRes' = NoRes
    /\ UNCHANGED <<rootExists, nRefresh, limit>>
    /\ lastFetch' = [lastFetch EXCEPT ![id] = NoFetch]
    /\ SetReq(r, next)
    /\ \/ /\ store[id].exists
          /\ store' = [store EXCEPT ![id] = NoDir]
          /\ UNCHANGED faults
       \/ \* fs.rm throws because the directory is already gone
          /\ ~store[id].exists
          /\ UNCHANGED <<store, faults>>
       \/ \* fs.rm throws on an I/O error and removes nothing
          /\ store[id].exists
          /\ CanFault
          /\ faults' = faults + 1
          /\ UNCHANGED store

\* lines 302-328: fs.writeFile of metadata.json
Commit(r) ==
    LET rq == req[r]
        task == CurTask(r)
        id == task.id
    IN
    /\ rq.pc = "commit"
    /\ localRes' = NoRes
    /\ UNCHANGED <<rootExists, nRefresh, limit>>
    /\ \/ /\ store[id].exists
          /\ store' = [store EXCEPT
                         ![id].meta =
                            EnhancedMetadata(task, rq.snapshotData, rq.stamp)]
          /\ lastFetch' = [lastFetch EXCEPT ![id] =
                             [payloads |-> Payloads(rq.asked),
                              files |-> FilesOf(store[id]),
                              meta |-> store'[id].meta]]
          /\ SetReq(r, NextTask([rq EXCEPT !.finished = @ \cup {id}]))
          /\ UNCHANGED faults
       \/ \* fs.writeFile throws because the directory is gone
          /\ ~store[id].exists
          /\ lastFetch' = [lastFetch EXCEPT ![id] = NoFetch]
          /\ SetReq(r, Fail500(rq, "task"))
          /\ UNCHANGED <<store, faults>>
       \/ \* fs.writeFile throws on an I/O error: the file is as it was, or
          \* was truncated before the error
          /\ store[id].exists
          /\ CanFault
          /\ faults' = faults + 1
          /\ lastFetch' = [lastFetch EXCEPT ![id] = NoFetch]
          /\ SetReq(r, Fail500(rq, "task"))
          /\ \/ UNCHANGED store
             \/ store' = [store EXCEPT ![id].meta = CorruptMeta]

\* lines 70-104: readFile of the k-th task's metadata.json, and after the
\* last one res.json(enhancedTasks)
Reread(r) ==
    LET rq == req[r]
        task == CurTask(r)
        dir == store[task.id]
        read == IF Readable(dir)
                THEN [rq EXCEPT !.enhancedTasks =
                                   Append(@, RefreshEntry(dir.meta))]
                ELSE [rq EXCEPT !.processingErrors = Append(@, task.id)]
    IN
    /\ rq.pc = "reread"
    /\ localRes' = NoRes
    /\ UNCHANGED <<rootExists, store, nRefresh, faults, limit, lastFetch>>
    /\ SetReq(r, IF rq.k < Len(rq.tasks) THEN [read EXCEPT !.k = rq.k + 1]
                 ELSE Respond(read))


\* ------------------------------------------------------------ GET /get-local-snapshots
\* line 125-126: fs.readdir lists the directories in the order of the file
\* system, taken here to be the order of their names
Folders(st) ==
    (IF st["T1"].exists THEN <<"T1">> ELSE <<>>)
        \o (IF st["T2"].exists THEN <<"T2">> ELSE <<>>)

\* variant: the first folder without a readable record ends the loop
RECURSIVE LocalSnapshotsStopAtBad(_, _)
LocalSnapshotsStopAtBad(folders, st) ==
    IF folders = <<>> THEN <<>>
    ELSE LET folder == Head(folders)
         IN  IF st[folder].exists /\ st[folder].meta.kind = "record"
             THEN <<LocalEntry(st[folder].meta, folder)>>
                     \o LocalSnapshotsStopAtBad(Tail(folders), st)
             ELSE <<>>

\* lines 128-156: the entries of the folders, in the order listed, skipping
\* every folder whose metadata.json cannot be read and parsed
RECURSIVE LocalSnapshots(_, _)
LocalSnapshots(folders, st) ==
    IF folders = <<>> THEN <<>>
    ELSE LET folder == Head(folders)
             rest == LocalSnapshots(Tail(folders), st)
         IN  IF Readable(st[folder])
             THEN <<LocalEntry(st[folder].meta, folder)>> \o rest
             ELSE rest

\* variant: no fs.access before the listing, so that fs.readdir of a
\* missing root throws into the outer catch
GetLocalSnapshotsNoAccess ==
    /\ Cardinality(InFlight) < limit
    /\ UNCHANGED <<rootExists, store, req, nRefresh, limit, lastFetch>>
    /\ \/ /\ rootExists
          /\ localRes' = [status |-> 200,
                          body |-> LocalSnapshots(Folders(store), store),
                          fault |-> FALSE]
          /\ UNCHANGED faults
       \/ /\ ~rootExists \/ CanFault
          /\ faults' = IF rootExists THEN faults + 1 ELSE faults
          /\ localRes' = [status |-> 500, body |-> <<>>, fault |-> TRUE]

\* lines 112-164: the whole handler; it reads the store and changes nothing
GetLocalSnapshots ==
    /\ Cardinality(InFlight) < limit
    /\ UNCHANGED <<rootExists, store, req, nRefresh, limit, lastFetch>>
    /\ IF ~rootExists
       THEN \* fs.access throws: res.json([])
            /\ localRes' = [status |-> 200, body |-> <<>>, fault |-> FALSE]
            /\ UNCHANGED faults
       ELSE \/ /\ localRes' = [status |-> 200,
                                 body |-> LocalSnapshots(Folders(store),
                                                         store),
                                 fault |-> FALSE]
               /\ UNCHANGED faults
            \/ \* fs.readdir throws on an I/O error: the outer catch
               /\ CanFault
               /\ faults' = faults + 1
               /\ localRes' = [status |-> 500, body |-> <<>>, fault |-> TRUE]

\* ------------------------------------------------------------ specification
Next ==
    \/ \E r \in Reqs : StartRefresh(r)
    \/ \E r \in Reqs : FetchDetail(r)
    \/ \E r \in Reqs : MkRoot(r)
    \/ \E r \in Reqs : MkDir(r)
    \/ \E r \in Reqs : FetchFile(r)
    \/ \E r \in Reqs : Cleanup(r)
    \/ \E r \in Reqs : Commit(r)
    \/ \E r \in Reqs : Reread(r)
    \/ GetLocalSnapshots

Spec == Init /\ [][Next]_vars

\* lines 43 and 112: the handlers are async functions with no lock between
\* them, so a second request may be served while a first one awaits a call
InitConc ==
    /\ rootExists = FALSE
    /\ store = [t \in Tasks |-> NoDir]
    /\ req = [r \in Reqs |-> IdleReq]
    /\ localRes = NoRes
    /\ nRefresh = 0
    /\ faults = 0
    /\ limit = 2
    /\ lastFetch = [t \in Tasks |-> NoFetch]

\* the steps of Next; the concurrent runs are explored with listings of at
\* most one task, two requests at work on the same task being their case
NextConc ==
    \/ \E r \in Reqs : StartRefresh(r) /\ Len(req'[r].items) <= 1
    \/ \E r \in Reqs : FetchDetail(r)
    \/ \E r \in Reqs : MkRoot(r)
    \/ \E r \in Reqs : MkDir(r)
    \/ \E r \in Reqs : FetchFile(r)
    \/ \E r \in Reqs : Cleanup(r)
    \/ \E r \in Reqs : Commit(r)
    \/ \E r \in Reqs : Reread(r)
    \/ GetLocalSnapshots

SpecConc == InitConc /\ [][NextConc]_vars


\* ------------------------------------------------------------ vocabulary of the properties
\* the file of a role is in the directory: <role>.json for the interactive
\* data, <role>.png or <role> for an image
ArtifactPresent(dir, fileAlias) ==
    IF fileAlias = "snapshot"
    THEN dir.files[<<fileAlias, ".json">>] > 0
    ELSE dir.files[<<fileAlias, ".png">>] > 0
           \/ dir.files[<<fileAlias, "">>] > 0

AllArtifacts(dir) == \A a \in Aliases : ArtifactPresent(dir, a)

NoArtifacts(dir) == \A a \in Aliases : ~ArtifactPresent(dir, a)

\* the file of a role was written by the refresh that wrote the record
ArtifactOfRecord(dir, fileAlias) ==
    \E f \in FileNames :
        /\ f[1] = fileAlias
        /\ f[2] = ".json" <=> fileAlias = "snapshot"
        /\ dir.files[f] = dir.meta.lastUpdated

EntryIds(entries) == {entries[i].id : i \in 1..Len(entries)}

EntrySet(entries) == {entries[i] : i \in 1..Len(entries)}

\* no request is in flight and r holds the answer of the latest refresh
LatestDone(r) ==
    /\ InFlight = {}
    /\ req[r].pc = "done"
    /\ req[r].stamp = nRefresh

\* ------------------------------------------------------------ C1
\* C1: whenever no refresh is in flight, every task has a metadata.json in
\* its directory if and only if all three artifact files are in it.
C1_Completeness ==
    InFlight = {} =>
        \A t \in Tasks :
            store[t].meta.kind # "none" <=> AllArtifacts(store[t])

\* ------------------------------------------------------------ C2
\* C2: once saveSnapshots has finished with a task one of whose three
\* fetches failed in this refresh, the task's directory holds none of the
\* three artifact files and no metadata.json.
C2_Transactionality ==
    \A r \in Reqs :
        \A t \in req[r].finished \cap req[r].fetchFailed :
            /\ NoArtifacts(store[t])
            /\ store[t].meta.kind = "none"

\* ------------------------------------------------------------ C3
\* C3: at every I/O boundary, a task whose metadata.json can be read has
\* all three artifact files, and they are the files its record was
\* committed with.
C3_NoPartialVisible ==
    \A t \in Tasks :
        Readable(store[t]) =>
            \A a \in Aliases :
                /\ ArtifactPresent(store[t], a)
                /\ ArtifactOfRecord(store[t], a)

\* ------------------------------------------------------------ C4
\* C4: after a refresh in which a fetch for task T failed, T has no
\* directory, T is not in the refresh's response, and T is not in the
\* response of a following GET /get-local-snapshots.
C4_FailedTaskAbsent ==
    \A r \in Reqs :
        LatestDone(r) =>
            \A t \in req[r].fetchFailed :
                /\ ~store[t].exists
                /\ t \notin EntryIds(req[r].enhancedTasks)
                /\ localRes.status = 200 => t \notin EntryIds(localRes.body)

\* ------------------------------------------------------------ C5
\* C5: a refresh whose task listing succeeded (and whose store root could
\* be created) answers 200 and has processed every task, whatever failed
\* for an individual task.
C5_PerTaskErrorsNonFatal ==
    \A r \in Reqs :
        (req[r].pc = "done" /\ req[r].failure \notin {"catalog", "root"}) =>
            /\ req[r].status = 200
            /\ \A i \in 1..Len(req[r].tasks) :
                   req[r].tasks[i].id \in req[r].finished

\* ------------------------------------------------------------ C6
\* C6: when the task listing fails, the request answers 500 at once: no
\* task is fetched, no transaction is started, and the step that answers
\* leaves the store root and every task directory as they were.
C6_ListingFailureLeavesStore ==
    [][\A r \in Reqs :
          req'[r].failure = "catalog" =>
              /\ req'[r].pc = "done"
              /\ req'[r].status = 500
              /\ req'[r].tasks = <<>>
              /\ req'[r].finished = {}
              /\ req'[r] # req[r] =>
                    (rootExists' = rootExists /\ store' = store)]_vars

\* a listing failed and answered 500 while the store held a directory
C6_Witness ==
    \E r \in Reqs :
        /\ req[r].failure = "catalog"
        /\ req[r].status = 500
        /\ \E t \in Tasks : store[t].exists

\* ------------------------------------------------------------ C7
\* C7: after a refresh that answered 200, GET /get-local-snapshots returns
\* exactly the entries of the refresh's response.
C7_LocalEqualsRefresh ==
    \A r \in Reqs :
        (LatestDone(r) /\ req[r].status = 200 /\ localRes.status = 200) =>
            EntrySet(localRes.body) = EntrySet(req[r].enhancedTasks)

\* ------------------------------------------------------------ C8
\* the entries, in task order, of the tasks whose record is in the store
RECURSIVE StoredEntries(_, _)
StoredEntries(tasks, st) ==
    IF tasks = <<>> THEN <<>>
    ELSE LET dir == st[Head(tasks).id]
             rest == StoredEntries(Tail(tasks), st)
         IN  IF dir.exists /\ dir.meta.kind = "record"
             THEN <<[id |-> dir.meta.id, name |-> dir.meta.name,
                     visualization |-> dir.meta.visualization,
                     imageAvailable |-> dir.meta.imageAvailable,
                     snapshotAvailable |-> dir.meta.snapshotAvailable,
                     displayMode |-> dir.meta.displayMode]>> \o rest
             ELSE rest

\* the ids, in task order, of the tasks with no record in the store
RECURSIVE NotStored(_, _)
NotStored(tasks, st) ==
    IF tasks = <<>> THEN <<>>
    ELSE LET dir == st[Head(tasks).id]
             rest == NotStored(Tail(tasks), st)
         IN  IF dir.exists /\ dir.meta.kind = "record"
             THEN rest ELSE <<Head(tasks).id>> \o rest

\* C8: in a refresh that answers 200, the entries are exactly the records
\* found in the store for the listed tasks, in the listing's order, and
\* the error messages are exactly the listed tasks that have no readable
\* record: every task is in one of the two, none in both.
C8_ResponseReflectsStore ==
    \A r \in Reqs :
        (req[r].pc = "done" /\ req[r].status = 200) =>
            /\ req[r].enhancedTasks = StoredEntries(req[r].tasks, store)
            /\ req[r].processingErrors = NotStored(req[r].tasks, store)
            /\ Len(req[r].enhancedTasks) + Len(req[r].processingErrors)
                  = Len(req[r].tasks)

\* a refresh answered 200 with an entry for one task and an error for
\* another, whose directory was left without a record
C8_Witness ==
    \E r \in Reqs :
        /\ req[r].pc = "done"
        /\ req[r].status = 200
        /\ Len(req[r].enhancedTasks) = 1
        /\ Len(req[r].processingErrors) = 1
        /\ \E t \in Tasks : store[t].exists /\ store[t].meta.kind # "record"

\* ------------------------------------------------------------ C9
\* C9: every entry of a refresh response has id, name, visualization,
\* imageAvailable, snapshotAvailable and displayMode defined (the two
\* flags are booleans in every record of the model).
C9_NoPartialEntry ==
    \A r \in Reqs :
        (req[r].pc = "done" /\ req[r].status = 200) =>
            \A i \in 1..Len(req[r].enhancedTasks) :
                LET e == req[r].enhancedTasks[i]
                IN  /\ e.id # Undef
                    /\ e.name # Undef
                    /\ e.visualization # Undef
                    /\ e.imageAvailable \in BOOLEAN
                    /\ e.snapshotAvailable \in BOOLEAN
                    /\ e.displayMode # Undef

\* ------------------------------------------------------------ C10
\* C10: a GET /get-local-snapshots that lists the store (no I/O error on
\* the listing itself) answers 200 with an entry for exactly the task
\* directories that hold a readable record: a directory whose
\* metadata.json is missing or corrupt is left out, its siblings are not.
C10_CorruptEntryIsolation ==
    (localRes # NoRes /\ ~localRes.fault) =>
        /\ localRes.status = 200
        /\ \A t \in Tasks :
              t \in EntryIds(localRes.body)
                  <=> (store[t].exists /\ store[t].meta.kind = "record")
        /\ Len(localRes.body)
              = Cardinality({t \in Tasks : store[t].meta.kind = "record"})

\* a listing answered while one directory held a corrupt metadata.json
\* and a sibling directory a valid record
C10_Witness ==
    /\ localRes.status = 200
    /\ \E t, u \in Tasks :
          /\ store[t].exists
          /\ store[t].meta.kind = "corrupt"
          /\ store[u].meta.kind = "record"
          /\ u \in EntryIds(localRes.body)

\* ------------------------------------------------------------ C11
\* C11: a GET /get-local-snapshots that arrives while public/snapshots does
\* not exist answers 200 with the empty array, and neither creates the
\* root nor changes anything in the store.
C11_MissingRootIsEmpty ==
    [][(localRes' # NoRes /\ ~rootExists) =>
          /\ localRes'.status = 200
          /\ localRes'.body = <<>>
          /\ rootExists' = rootExists
          /\ store' = store]_vars

\* the listing answered after a refresh that ended before creating the root
C11_Witness ==
    /\ ~rootExists
    /\ localRes.status = 200
    /\ localRes.body = <<>>
    /\ nRefresh > 0

\* ------------------------------------------------------------ C12
\* a request's step that commits the task it is at
Commits(r) ==
    /\ req[r].pc = "commit"
    /\ req'[r] # req[r]
    /\ req'[r].status # 500

SameButLastUpdated(m1, m2) ==
    [m1 EXCEPT !.lastUpdated = 0] = [m2 EXCEPT !.lastUpdated = 0]

\* C12: when a task is fetched and committed twice in a row and the three
\* roles got the same payloads both times (same content types, same
\* declared chart type, whatever the statuses), the record after the second
\* fetch equals the record after the first in every field but lastUpdated,
\* and the directory holds the same set of files.
C12_RefetchIdempotent ==
    [][\A r \in Reqs :
          Commits(r) =>
              LET id == CurTask(r).id
                  first == lastFetch[id]
              IN  (first # NoFetch
                     /\ first.payloads = Payloads(req[r].asked)) =>
                      /\ SameButLastUpdated(store'[id].meta, first.meta)
                      /\ store'[id].meta.lastUpdated > first.meta.lastUpdated
                      /\ FilesOf(store'[id]) = first.files]_vars

\* a second fetch of a committed task has got the payloads of the first
\* and is at its commit
C12_Witness ==
    \E r \in Reqs :
        /\ req[r].pc = "commit"
        /\ Len(req[r].asked) = 3
        /\ lastFetch[CurTask(r).id].payloads = Payloads(req[r].asked)
        /\ store[CurTask(r).id].meta = lastFetch[CurTask(r).id].meta
        /\ req[r].stamp > store[CurTask(r).id].meta.lastUpdated

\* ------------------------------------------------------------ C13
\* C13: the record a transaction commits has for visualization the chart
\* type the interactive payload of that transaction declared, or "unknown"
\* when it declared none; and every record of the store has displayMode
\* "snapshot" when its visualization is in SUPPORTED_CHARTS and "image"
\* otherwise ("kpi" gives "snapshot"; "mappng" and "unknown" give "image").
C13_DisplayModeFromType ==
    [][/\ \A r \in Reqs :
             Commits(r) =>
                 LET declared == req[r].asked[1].visualization
                     record == store'[CurTask(r).id].meta
                 IN  /\ req[r].asked[1].fileAlias = "snapshot"
                     /\ record.visualization
                           = (IF declared = Undef THEN "unknown"
                              ELSE declared)
       /\ \A t \in Tasks :
             LET record == store'[t].meta
             IN  record.kind = "record" =>
                     /\ record.displayMode \in {"snapshot", "image"}
                     /\ record.displayMode = "snapshot"
                           <=> record.visualization \in SUPPORTED_CHARTS
                     /\ record.visualization = "kpi"
                           => record.displayMode = "snapshot"
                     /\ record.visualization \in {"mappng", "unknown"}
                           => record.displayMode = "image"]_vars

\* one record of a supported chart type beside one of an unsupported type
C13_Witness ==
    \E t, u \in Tasks :
        /\ store[t].meta.kind = "record"
        /\ store[t].meta.visualization = "kpi"
        /\ store[t].meta.displayMode = "snapshot"
        /\ store[u].meta.kind = "record"
        /\ store[u].meta.visualization = "mappng"
        /\ store[u].meta.displayMode = "image"

\* ------------------------------------------------------------ C14
\* C14: a step that saveSnapshots takes for one task (creating its
\* directory, writing a file, committing, rolling back) leaves the
\* directory, the files and the record of every other task as they were.
C14_Frame ==
    [][\A r \in Reqs :
          (req'[r] # req[r]
             /\ req[r].pc \in {"mkdir", "fetch", "cleanup", "commit"}) =>
              \A B \in Tasks \ {CurTask(r).id} : store'[B] = store[B]]_vars

\* task A was rolled back in a refresh that left the record of B in place
C14_Witness ==
    \E r \in Reqs, A, B \in Tasks :
        /\ A # B
        /\ A \in req[r].finished
        /\ ~store[A].exists
        /\ B \in req[r].finished
        /\ Readable(store[B])

\* ------------------------------------------------------------ C15
\* C15: in a transaction, once the request of a role has come back with a
\* status other than 200 or has thrown, or a write has thrown, no request
\* of a later role is made and the transaction is at its rollback.
C15_AbortOnFirstFailure ==
    \A r \in Reqs :
        LET asked == req[r].asked
        IN  /\ \A i \in 1..Len(asked) :
                  asked[i].status # 200 =>
                      /\ i = Len(asked)
                      /\ req[r].pc = "cleanup"
            /\ req[r].hasFailures => req[r].pc = "cleanup"

\* ------------------------------------------------------------ C16
\* the file of a role is in the directory and was written by refresh n
PersistedBy(dir, fileAlias, n) ==
    \E f \in FileNames :
        /\ f[1] = fileAlias
        /\ f[2] = ".json" <=> fileAlias = "snapshot"
        /\ dir.files[f] = n

\* C16: metadata.json is written only by the transaction of its task, after
\* the three roles were requested and their files written in that same
\* transaction; the write closes the transaction, and once a refresh is
\* done with a task it neither writes to nor removes the task's directory.
C16_CommitPoint ==
    [][\A r \in Reqs :
          req'[r] # req[r] =>
              \A t \in Tasks :
                  /\ (store'[t].exists /\ store'[t].meta # store[t].meta) =>
                        /\ req[r].pc = "commit"
                        /\ CurTask(r).id = t
                        /\ Len(req[r].asked) = 3
                        /\ \A a \in Aliases :
                              PersistedBy(store[t], a, req[r].stamp)
                        /\ store'[t].files = store[t].files
                        /\ t \notin req[r].finished
                        /\ req'[r].pc # "cleanup"
                        /\ req'[r].status # 500 => t \in req'[r].finished
                  /\ (t \in req[r].finished /\ req[r].pc # "done") =>
                        /\ store'[t] = store[t]
                        /\ t \in req'[r].finished]_vars

\* a refresh has committed one task and is about to start on the next
C16_Witness ==
    \E r \in Reqs, t \in Tasks :
        /\ req[r].pc = "mkdir"
        /\ t \in req[r].finished
        /\ Readable(store[t])
        /\ store[t].meta.lastUpdated = req[r].stamp
        /\ \A a \in Aliases : PersistedBy(store[t], a, req[r].stamp)

\* ------------------------------------------------------------ C17
\* the i-th response of r's transaction was received and written
Written(r, i) ==
    /\ req[r].asked[i].status # 0
    /\ ~req[r].hasFailures

\* the payload of the i-th response is in the task's directory, the role
\* loop went on after it, and the transaction is not at its commit
Flagged(r, i) ==
    LET a == req[r].asked[i]
    IN  /\ store[CurTask(r).id].files[OutName(a.fileAlias, a.contentType)]
              = req[r].stamp
        /\ i < 3 => (Len(req[r].asked) > i \/ req[r].pc = "fetch")
        /\ req[r].pc # "commit"

\* C17 as stated: a payload whose content type is not the one its role
\* usually has (JSON for an image role, anything but JSON for the
\* interactive role, a binary type other than PNG for an image role) is
\* written, does not end the role loop, and keeps the transaction from
\* committing.
C17_UnexpectedTypeFlagged ==
    \A r \in Reqs :
        \A i \in 1..Len(req[r].asked) :
            LET a == req[r].asked[i]
            IN  (Written(r, i) /\ a.contentType # UsualType(a.fileAlias))
                    => Flagged(r, i)

\* C17 amended: a payload that is JSON for an image role, or not JSON for
\* the interactive role, is written (unless the write throws), does not
\* end the role loop, and keeps the transaction from committing; a payload
\* of an image role that is neither JSON nor PNG is written under the bare
\* role name and counts as the image of that role.
C17_MisplacedTypeFlagged ==
    \A r \in Reqs :
        \A i \in 1..Len(req[r].asked) :
            LET a == req[r].asked[i]
                json == a.contentType = "application/json"
            IN  Written(r, i) =>
                    /\ json # (a.fileAlias = "snapshot") => Flagged(r, i)
                    /\ (~json /\ a.contentType # "image/png"
                           /\ a.fileAlias # "snapshot") =>
                          /\ store[CurTask(r).id].files[<<a.fileAlias, "">>]
                                = req[r].stamp
                          /\ a.fileAlias = "image-small"
                                => req[r].imageSmallSaved
                          /\ a.fileAlias = "image-large"
                                => req[r].imageLargeSaved

\* all three roles were requested although the small image came as JSON,
\* which is in the directory of the task now to be rolled back
C17_Witness ==
    \E r \in Reqs :
        /\ req[r].pc = "cleanup"
        /\ ~req[r].hasFailures
        /\ Len(req[r].asked) = 3
        /\ req[r].asked[2].contentType = "application/json"
        /\ store[CurTask(r).id].files[<<"image-small", ".json">>]
              = req[r].stamp

\* ------------------------------------------------------------ C18
\* C18: the file requests of a task are made for snapshot, image-small and
\* image-large in this order; when one is made, the detail of every listed
\* task has been fetched, in the order of the listing, and every task
\* before the one at hand has been committed or rolled back, while the one
\* at hand has not.
C18_DeterministicOrder ==
    [][\A r \in Reqs :
          (req[r].pc = "fetch" /\ req'[r] # req[r]) =>
              LET order == <<"snapshot", "image-small", "image-large">>
                  asked == req'[r].asked
              IN  /\ Len(asked) = Len(req[r].asked) + 1
                  /\ Len(asked) <= 3
                  /\ \A i \in 1..Len(asked) :
                        asked[i].fileAlias = order[i]
                  /\ Len(req[r].tasks) = Len(req[r].items)
                  /\ \A j \in 1..Len(req[r].items) :
                        req[r].tasks[j].id = req[r].items[j]
                  /\ \A j \in 1..Len(req[r].tasks) :
                        req[r].tasks[j].id \in req[r].finished
                            <=> j < req[r].k]_vars

\* the first task is done with and a file of the second has been asked for
C18_Witness ==
    \E r \in Reqs :
        /\ req[r].k = 2
        /\ req[r].pc = "fetch"
        /\ Len(req[r].asked) = 2
        /\ req[r].tasks[1].id \in req[r].finished

\* ------------------------------------------------------------ C19
\* r has created the directory of the task it is at and has neither
\* committed nor rolled back yet
OpenTransaction(r) == req[r].pc \in {"fetch", "cleanup", "commit"}

\* C19: with two GET /get-snapshots requests in flight, at no I/O boundary
\* are two fetch transactions open for the same task id.
C19_OneWriterPerTask ==
    \A r1, r2 \in Reqs :
        (r1 # r2 /\ OpenTransaction(r1) /\ OpenTransaction(r2))
            => CurTask(r1).id # CurTask(r2).id

\* ------------------------------------------------------------ C20
\* C20: with two refreshes in flight, a rollback removes no file and no
\* record that the other refresh wrote; no write of a transaction (of a
\* payload, of metadata.json) fails because its directory was removed
\* under it; and so no request answers 500 for that reason.
C20_RollbackIsLocal ==
    [][\A r \in Reqs :
          (req'[r] # req[r] /\ OpenTransaction(r)) =>
              LET id == CurTask(r).id
                  others == {req[o].stamp : o \in InFlight \ {r}}
              IN  /\ (req[r].pc = "cleanup" /\ ~store'[id].exists) =>
                        /\ \A f \in FileNames :
                              store[id].files[f] \notin others
                        /\ store[id].meta.kind = "record"
                              => store[id].meta.lastUpdated \notin others
                  /\ (req[r].pc = "fetch" /\ req'[r].hasFailures
                         /\ req'[r].asked[Len(req'[r].asked)].status # 0)
                        => store[id].exists
                  /\ (req[r].pc = "commit" /\ req'[r].status = 500)
                        => store[id].exists]_vars

\* ------------------------------------------------------------ C21
\* the entries of the responses at hand: of the refreshes that answered
\* 200 and of the local listing just sent
Returned ==
    UNION {EntrySet(req[r].enhancedTasks) :
              r \in {q \in Reqs : req[q].pc = "done" /\ req[q].status = 200}}
        \cup EntrySet(localRes.body)

EntryFields ==
    {"id", "name", "visualization", "imageAvailable", "snapshotAvailable",
     "displayMode"}

\* an entry has no field but the six, and the entries made of a record do
\* not depend on the record's lastUpdated
ProjectsRecord ==
    /\ \A e \in Returned : DOMAIN e = EntryFields
    /\ \A t \in Tasks, n \in 0..(MaxRefresh + 1) :
          LET m == store[t].meta
              other == [m EXCEPT !.lastUpdated = n]
          IN  m.kind = "record" =>
                  /\ RefreshEntry(other) = RefreshEntry(m)
                  /\ LocalEntry(other, t) = LocalEntry(m, t)

\* C21: every entry returned by GET /get-snapshots and by
\* GET /get-local-snapshots carries the six fields id, name, visualization,
\* imageAvailable, snapshotAvailable and displayMode, each of them present
\* in the JSON sent, and nothing else of the record it was made of.
C21_ExactlySixFields ==
    /\ ProjectsRecord
    /\ \A e \in Returned :
          /\ \A f \in {"id", "name", "visualization", "displayMode"} :
                e[f] # Undef
          /\ e.imageAvailable \in BOOLEAN
          /\ e.snapshotAvailable \in BOOLEAN

\* ------------------------------------------------------------ C22
\* the task ids the listing of r's refresh holds
Listed(rq) == {rq.items[i] : i \in 1..Len(rq.items)}

\* C22: no step of a refresh changes the directory of a task that the
\* listing of that refresh does not hold, and a GET /get-local-snapshots
\* that lists the store returns every task whose record can be read,
\* listed by the latest refresh or not.
C22_UnlistedTaskKept ==
    [][/\ \A r \in Reqs :
             req'[r] # req[r] =>
                 \A t \in Tasks \ (Listed(req[r]) \cup Listed(req'[r])) :
                     store'[t] = store[t]
       /\ (localRes' # NoRes /\ ~localRes'.fault) =>
             /\ store' = store
             /\ \A t \in Tasks :
                   Readable(store[t]) => t \in EntryIds(localRes'.body)]_vars

\* the second refresh listed other tasks than the one the first refresh
\* committed, and the local listing sent after it returns that task
C22_Witness ==
    \E r \in Reqs, t \in Tasks :
        /\ req[r].pc = "done"
        /\ req[r].status = 200
        /\ req[r].stamp = 2
        /\ req[r].tasks # <<>>
        /\ \A i \in 1..Len(req[r].tasks) : req[r].tasks[i].id # t
        /\ Readable(store[t])
        /\ store[t].meta.lastUpdated = 1
        /\ localRes.status = 200
        /\ t \in EntryIds(localRes.body)

====
